---- MODULE Spec2Model ----
(***************************************************************************)
(* Pointer-chain resolution (pwndbg/chain.py) and the windbg-style memory  *)
(* dump / patch commands (pwndbg/commands/windbg.py) over a byte-addressed *)
(* target memory.                                                          *)
(*                                                                         *)
(* Representation of Python values:                                        *)
(*   - a str is a sequence of one-character strings;                       *)
(*   - an address is a natural number;                                     *)
(*   - an integer read by a dump is kept as its base-256 numeral, most     *)
(*     significant byte first (a 64-bit value does not fit TLC's integers);*)
(*   - a raised exception is a record [type, address]; NoError is "no      *)
(*     exception".                                                         *)
(***************************************************************************)
EXTENDS Integers, Sequences, FiniteSets, TLC

VARIABLES
    endian,   \* byte order of the target ("little" or "big")
    mem,      \* target memory: mapped address -> byte; DOMAIN mem is what is mapped
    chain,    \* the last call of chain.get and what it returned
    text,     \* the last call of chain.format and what it returned
    dump,     \* the last call of windbg.dX and what it returned
    patch     \* the last call of windbg.eX and how it ended

vars == <<endian, mem, chain, text, dump, patch>>

----------------------------------------------------------------------------
(* Bounds of the model *)

\* number of pointer-sized slots a chain can walk through
NSlots == 4
\* get is called with limits 0..MaxLimit
MaxLimit == 5
\* size in bytes of the memory region the dump commands read
MemSize == 72
\* dX is called with counts 0..MaxCount
MaxCount == 17
\* dX is called at addresses 0..MaxBase
MaxBase == 1
\* size in bytes of the memory region the patch commands write
PatchMem == 16
\* eX is called with 1..MaxItems items
MaxItems == 2

(* Program constants *)

\* chain.LIMIT
LIMIT == 5
\* pwndbg.arch.ptrsize of the target (a 32-bit target)
PtrSize == 4

Endians == {"little", "big"}
Sizes == {1, 2, 4, 8}

----------------------------------------------------------------------------
(* Python built-ins used by the code *)

Min(a, b) == IF a < b THEN a ELSE b

\* list.count(x)
list_count(s, x) == Cardinality({k \in 1..Len(s) : s[k] = x})

\* s[lo:hi] for 0 <= lo <= hi (a slice is clamped to the list)
Slice(s, lo, hi) == SubSeq(s, lo + 1, Min(hi, Len(s)))

Reverse(s) == [k \in 1..Len(s) |-> s[Len(s) + 1 - k]]

RECURSIVE Pow(_, _)
Pow(b, e) == IF e = 0 THEN 1 ELSE b * Pow(b, e - 1)

\* str.rjust(width, '0')
RECURSIVE rjust(_, _)
rjust(s, width) == IF Len(s) >= width THEN s ELSE rjust(<<"0">> \o s, width)

----------------------------------------------------------------------------
(* Memory Access Port: pwndbg.memory.poi / pwndbg.memory.write *)

NoError == [type |-> "none", address |-> 0]
MemoryError(address) == [type |-> "gdb.MemoryError", address |-> address]

Mapped(m, address, n) == \A k \in 0..(n - 1) : (address + k) \in DOMAIN m

\* the n bytes at address, in memory order
Bytes(m, address, n) == [k \in 1..n |-> m[address + k - 1]]

\* pwndbg.memory.poi(type, address): the unsigned integer of `size` bytes at
\* address as a numeral (most significant byte first), or gdb.MemoryError
poi(size, address) ==
    IF Mapped(mem, address, size)
    THEN [error |-> NoError,
          value |-> IF endian = "little" THEN Reverse(Bytes(mem, address, size))
                                         ELSE Bytes(mem, address, size)]
    ELSE [error |-> MemoryError(address), value |-> <<>>]

\* int(gdb.Value) of a pointer: the numeral as a number
RECURSIVE int(_)
int(v) == IF v = <<>> THEN 0 ELSE 256 * int(SubSeq(v, 1, Len(v) - 1)) + v[Len(v)]

\* pwndbg.memory.write(address, data): all of data is written, or nothing is
\* and gdb.MemoryError is raised
write(m, address, data) ==
    IF Mapped(m, address, Len(data))
    THEN [error |-> NoError,
          mem   |-> [a \in DOMAIN m |->
                        IF a >= address /\ a < address + Len(data)
                        THEN data[a - address + 1] ELSE m[a]]]
    ELSE [error |-> MemoryError(address), mem |-> m]

----------------------------------------------------------------------------
(* pwndbg/chain.py *)

\* "Don't follow cycles, except to stop at the second occurrence."
is_cycle_3(result, address) == list_count(result, address) >= 3
is_cycle_1(result, address) == list_count(result, address) >= 1
is_cycle(result, address) == list_count(result, address) >= 2

\* The loop of get, from iteration i on.  exit tells which way the loop ended:
\* "limit" (range exhausted), "cycle" (break at line 22), "fault" (break at
\* line 28).
RECURSIVE get_loop(_, _, _, _)
get_loop(result, address, i, limit) ==
    IF i >= limit THEN [result |-> result, exit |-> "limit", raised |-> NoError]
    ELSE IF is_cycle(result, address)
         THEN [result |-> result, exit |-> "cycle", raised |-> NoError]
    ELSE LET appended == Append(result, address)
             p == poi(PtrSize, address)
         IN  IF p.error = NoError
             THEN get_loop(appended, int(p.value), i + 1, limit)
             ELSE [result |-> appended, exit |-> "fault", raised |-> NoError]

\* get with the loop running limit + 1 times
get_one_more(address, limit) == get_loop(<<>>, address, 0, limit + 1)

\* get without the except clause: gdb.MemoryError leaves get
get_no_except(address, limit) ==
    LET r == get_loop(<<>>, address, 0, limit)
    IN  IF r.exit = "fault"
        THEN [result |-> <<>>, exit |-> "fault",
              raised |-> MemoryError(r.result[Len(r.result)])]
        ELSE r

get(address, limit) == get_loop(<<>>, address, 0, limit)

\* pwndbg.enhance.enhance(value), '...'
enhance(value) == [kind |-> "enhance", value |-> value]
Ellipsis == [kind |-> "...", value |-> 0]

\* format(value): enhanced is the last part of the text, rest the links that
\* are joined by ' --> ' before it (none when the chain has one entry); links
\* and exit are the chain format got from get and how get's loop ended.
format(value) ==
    LET r == get(value, LIMIT)
        links == r.result
        enhanced == IF Len(links) = 1 THEN enhance(links[Len(links)])
                    ELSE IF Len(links) < LIMIT THEN enhance(links[Len(links) - 1])
                    ELSE Ellipsis
        rest == SubSeq(links, 1, Len(links) - 1)
    IN  [enhanced |-> enhanced,
         rest     |-> IF Len(links) = 1 THEN <<>> ELSE rest,
         links    |-> links,
         exit     |-> r.exit]

----------------------------------------------------------------------------
(* pwndbg/commands/windbg.py: dump *)

HexChars == <<"0", "1", "2", "3", "4", "5", "6", "7",
              "8", "9", "a", "b", "c", "d", "e", "f">>
HexUpper == <<"0", "1", "2", "3", "4", "5", "6", "7",
              "8", "9", "A", "B", "C", "D", "E", "F">>

\* the numeral of an address (Python ints have no width: no leading zero byte)
RECURSIVE numeral(_)
numeral(n) == IF n = 0 THEN <<>> ELSE Append(numeral(n \div 256), n % 256)

RECURSIVE lstrip(_, _)
lstrip(s, c) == IF s # <<>> /\ s[1] = c THEN lstrip(Tail(s), c) ELSE s

\* "%x" % abs(value): lower-case hex digits, no leading zero, "0" for zero
\* (the values here are unsigned, abs changes nothing)
RECURSIVE nibbles(_)
nibbles(v) ==
    IF v = <<>> THEN <<>>
    ELSE <<HexChars[(v[1] \div 16) + 1], HexChars[(v[1] % 16) + 1]>> \o nibbles(Tail(v))

percent_x(v) == LET d == lstrip(nibbles(v), "0") IN IF d = <<>> THEN <<"0">> ELSE d

enhex(size, value) == rjust(percent_x(value), size * 2)

\* ' '.join(line)
RECURSIVE join(_)
join(line) ==
    IF line = <<>> THEN <<>>
    ELSE IF Len(line) = 1 THEN line[1]
    ELSE line[1] \o <<" ">> \o join(Tail(line))

\* the read loop with `continue` in place of `break`
RECURSIVE dX_read_continue(_, _, _, _, _, _)
dX_read_continue(values, reads, size, address, count, i) ==
    IF i >= count THEN [values |-> values, reads |-> reads]
    ELSE LET gval == poi(size, address + i * size)
         IN  dX_read_continue(IF gval.error = NoError THEN Append(values, gval.value)
                                                      ELSE values,
                              Append(reads, address + i * size),
                              size, address, count, i + 1)

\* The read loop of dX (lines 68-73) from index i on: values are the integers
\* read, reads the addresses handed to poi.
RECURSIVE dX_read(_, _, _, _, _, _)
dX_read(values, reads, size, address, count, i) ==
    IF i >= count THEN [values |-> values, reads |-> reads]
    ELSE LET gval == poi(size, address + i * size)
         IN  IF gval.error = NoError
             THEN dX_read(Append(values, gval.value), Append(reads, address + i * size),
                          size, address, count, i + 1)
             ELSE [values |-> values, reads |-> Append(reads, address + i * size)]

\* int(math.ceil(count * size / float(16)))
n_rows_floor(count, size) == (count * size) \div 16
n_rows(count, size) == (count * size + 15) \div 16

\* int(16 / size)
row_sz(size) == 16 \div size

\* lines 80-84: the text of row i
dX_line(size, address, i, row) ==
    join(<<enhex(PtrSize, numeral(address + i + 16))>>
         \o [k \in 1..Len(row) |-> enhex(size, row[k])])

\* dX(size, address, count, to_string): the lines returned (and printed),
\* with the values and the reads of the loop
dX(size, address, count) ==
    LET r    == dX_read(<<>>, <<>>, size, address, count, 0)
        rows == [i \in 1..n_rows(count, size) |->
                    Slice(r.values, (i - 1) * row_sz(size), i * row_sz(size))]
    IN  [lines  |-> [i \in 1..Len(rows) |-> dX_line(size, address, i - 1, rows[i])],
         values |-> r.values,
         reads  |-> r.reads,
         raised |-> NoError]

----------------------------------------------------------------------------
(* pwndbg/commands/windbg.py: patch *)

DecodeError == [type |-> "binascii.Error", address |-> 0]

hexval(c) == CHOOSE v \in 0..15 : HexChars[v + 1] = c \/ HexUpper[v + 1] = c

\* codecs.decode(bytestr, 'hex'): two digits a byte, in the order written
hex_decode(bytestr) ==
    IF Len(bytestr) % 2 = 1 THEN [error |-> DecodeError, data |-> <<>>]
    ELSE [error |-> NoError,
          data  |-> [k \in 1..(Len(bytestr) \div 2) |->
                        16 * hexval(bytestr[2 * k - 1]) + hexval(bytestr[2 * k])]]

\* the loop of eX with a failed write skipped instead of raised
RECURSIVE eX_loop_skip(_, _, _, _, _, _, _)
eX_loop_skip(m, writes, size, address, data, hex, i) ==
    IF i >= Len(data) THEN [mem |-> m, writes |-> writes, raised |-> NoError]
    ELSE LET decoded == IF hex THEN hex_decode(rjust(data[i + 1], size * 2))
                               ELSE [error |-> NoError, data |-> data[i + 1]]
             w == write(m, address + i * size, decoded.data)
         IN  IF decoded.error # NoError
             THEN [mem |-> m, writes |-> writes, raised |-> decoded.error]
             ELSE eX_loop_skip(w.mem, Append(writes, address + i * size),
                               size, address, data, hex, i + 1)

\* The loop of eX (lines 151-157) from item i on, over memory m: writes are
\* the addresses handed to pwndbg.memory.write, raised the exception that
\* left the loop.
RECURSIVE eX_loop(_, _, _, _, _, _, _)
eX_loop(m, writes, size, address, data, hex, i) ==
    IF i >= Len(data) THEN [mem |-> m, writes |-> writes, raised |-> NoError]
    ELSE LET decoded == IF hex THEN hex_decode(rjust(data[i + 1], size * 2))
                               ELSE [error |-> NoError, data |-> data[i + 1]]
             w == write(m, address + i * size, decoded.data)
         IN  IF decoded.error # NoError
             THEN [mem |-> m, writes |-> writes, raised |-> decoded.error]
             ELSE IF w.error = NoError
                  THEN eX_loop(w.mem, Append(writes, address + i * size),
                               size, address, data, hex, i + 1)
                  ELSE [mem    |-> m,
                        writes |-> Append(writes, address + i * size),
                        raised |-> w.error]

\* eX(size, address, data, hex); the address is given already evaluated
\* (pwndbg.commands.fix), the memory after the loop is returned with how it ended
eX(size, address, data, hex) == eX_loop(mem, <<>>, size, address, data, hex, 0)

----------------------------------------------------------------------------
(* State machine *)

NoCall == [called |-> FALSE]

\* no command has been given to the debugger yet
Idle == ~chain.called /\ ~text.called /\ ~dump.called /\ ~patch.called

\* the bytes of pointer n in the target's memory, in memory order
Encode(n, e) ==
    LET be == [k \in 1..PtrSize |-> (n \div Pow(256, PtrSize - k)) % 256]
    IN  IF e = "little" THEN Reverse(be) ELSE be

\* initial content of the byte at address a in the dump and patch sessions
Pattern(a) == (17 * a + 3) % 256

\* a region of `size` bytes: mapped below `brk`, unmapped at `brk`, and above
\* `brk` mapped or not
Region(size, brk, above) ==
    [a \in {x \in 0..(size - 1) : x < brk \/ (above /\ x > brk)} |-> Pattern(a)]

SeqsUpTo(S, n) == UNION {[1..k -> S] : k \in 0..n}

\* hex items of eb/ew/ed/eq; raw items of ez/eza, as the bytes of each string
HexItems == {<<"1">>, <<"4", "1">>, <<"4", "2">>, <<"a", "B", "c">>}
RawItems == {<<65>>, <<66, 67>>}

\* a chain session: the first k pointer slots are mapped, each holds the
\* address of one of the slots 0..NSlots
InitChain ==
    \E e \in Endians, k \in 0..NSlots :
        \E tbl \in [0..(k - 1) -> 0..NSlots] :
            /\ endian = e
            /\ mem = [a \in 0..(PtrSize * k - 1) |->
                         Encode(PtrSize * tbl[a \div PtrSize], e)[(a % PtrSize) + 1]]
            /\ chain = NoCall /\ text = NoCall /\ dump = NoCall /\ patch = NoCall

InitDump ==
    \E e \in Endians, brk \in 0..MemSize, above \in BOOLEAN :
        /\ endian = e
        /\ mem = Region(MemSize, brk, above)
        /\ chain = NoCall /\ text = NoCall /\ dump = NoCall /\ patch = NoCall

InitPatch ==
    \E e \in Endians, brk \in 0..PatchMem, above \in BOOLEAN :
        /\ endian = e
        /\ mem = Region(PatchMem, brk, above)
        /\ chain = NoCall /\ text = NoCall /\ dump = NoCall /\ patch = NoCall

Get(address, limit) ==
    /\ chain' = [called |-> TRUE, address |-> address, limit |-> limit,
                 ret |-> get(address, limit)]
    /\ UNCHANGED <<endian, mem, text, dump, patch>>

Format(value) ==
    /\ text' = [called |-> TRUE, value |-> value, ret |-> format(value)]
    /\ UNCHANGED <<endian, mem, chain, dump, patch>>

Dump(size, address, count) ==
    /\ dump' = [called |-> TRUE, size |-> size, address |-> address,
                count |-> count, ret |-> dX(size, address, count)]
    /\ UNCHANGED <<endian, mem, chain, text, patch>>

Patch(size, address, data, hex) ==
    LET r == eX(size, address, data, hex)
    IN  /\ mem' = r.mem
        /\ patch' = [called |-> TRUE, size |-> size, address |-> address,
                     data |-> data, hex |-> hex,
                     writes |-> r.writes, raised |-> r.raised]
        /\ UNCHANGED <<endian, chain, text, dump>>

\* start addresses: the first slot, an unaligned address, the slot past the last
StartAddrs == {0, 1, PtrSize * NSlots}

\* A session applies one command to the target it starts with (a patch may be
\* followed by one dump): what a command returns depends on the memory alone.

NextChain ==
    \/ Idle /\ \E a \in StartAddrs, l \in 0..MaxLimit : Get(a, l)
    \/ Idle /\ \E a \in StartAddrs : Format(a)

\* counts given to the dump commands: the small ones, and db's 100
DumpCounts == (0..MaxCount) \cup {100}

NextDump ==
    Idle /\ \E s \in Sizes, a \in 0..MaxBase, n \in DumpCounts : Dump(s, a, n)

\* addresses given to the patch commands, and to the dumps that follow them
PatchAddrs == {0, 1}

NextPatch ==
    \/ Idle /\ \E s \in Sizes, a \in PatchAddrs, d \in SeqsUpTo(HexItems, MaxItems) :
                  Patch(s, a, d, TRUE)
    \/ Idle /\ \E a \in PatchAddrs, d \in SeqsUpTo(RawItems, MaxItems) :
                  Patch(1, a, d, FALSE)
    \/ ~dump.called /\ \E s \in Sizes, a \in PatchAddrs, n \in 0..MaxItems :
                  Dump(s, a, n)

SpecChain == InitChain /\ [][NextChain]_vars
SpecDump  == InitDump /\ [][NextDump]_vars
SpecPatch == InitPatch /\ [][NextPatch]_vars

----------------------------------------------------------------------------
(* Reading the results back *)

\* the fields of a line of text, split at the blanks
RECURSIVE Fields(_, _)
Fields(line, field) ==
    IF line = <<>> THEN <<field>>
    ELSE IF line[1] = " " THEN <<field>> \o Fields(Tail(line), <<>>)
    ELSE Fields(Tail(line), Append(field, line[1]))

\* the number a hex string writes
RECURSIVE HexNat(_)
HexNat(str) ==
    IF str = <<>> THEN 0
    ELSE 16 * HexNat(SubSeq(str, 1, Len(str) - 1)) + hexval(str[Len(str)])

\* the digits of a hex string as numbers, leading zeros dropped
HexDigits(str) == lstrip([k \in 1..Len(str) |-> hexval(str[k])], 0)

RECURSIVE Concat(_)
Concat(seqs) == IF seqs = <<>> THEN <<>> ELSE seqs[1] \o Concat(Tail(seqs))

\* the address label of returned line i, and the values that follow it
Label(lines, i) == Fields(lines[i], <<>>)[1]
RowValues(lines, i) == Tail(Fields(lines[i], <<>>))
AllValues(lines) == Concat([i \in 1..Len(lines) |-> RowValues(lines, i)])

\* token is the hex text, 2 * size digits wide, of the unsigned integer that
\* the size bytes at address hold in the target's byte order
ShowsWordAt(token, address, size) ==
    /\ Len(token) = 2 * size
    /\ \A j \in 1..size :
          16 * hexval(token[2 * j - 1]) + hexval(token[2 * j])
              = mem[IF endian = "little" THEN address + size - j ELSE address + j - 1]

\* the least r with 16 * r >= n
Ceil16(n) == CHOOSE r \in 0..n : 16 * r >= n /\ 16 * (r - 1) < n

----------------------------------------------------------------------------
(* Claims *)

\* C1: for every start address A, every memory content and every limit
\* L >= 1, get(A, L) returns (no exception) a sequence of length at least 1
\* and at most L whose first element is A.
C1_ChainLengthBounded ==
    (chain.called /\ chain.limit >= 1) =>
        /\ chain.ret.raised = NoError
        /\ Len(chain.ret.result) >= 1
        /\ Len(chain.ret.result) <= chain.limit
        /\ chain.ret.result[1] = chain.address

\* a chain that fills its limit, and one that stops short of it
C1_Witness ==
    /\ chain.called /\ chain.limit = 3 /\ Len(chain.ret.result) = 3
    /\ chain.ret.exit = "limit"

\* C2: in every chain get returns, whatever cycles the memory holds, no
\* address occurs more than twice.
C2_AtMostTwice ==
    chain.called =>
        \A k \in 1..Len(chain.ret.result) :
            Cardinality({j \in 1..Len(chain.ret.result) :
                            chain.ret.result[j] = chain.ret.result[k]}) <= 2

\* a two-address cycle A -> B -> A, cut after its second round
C2_Witness ==
    /\ chain.called /\ chain.ret.exit = "cycle"
    /\ Len(chain.ret.result) = 4
    /\ chain.ret.result[1] = chain.ret.result[3]
    /\ chain.ret.result[2] = chain.ret.result[4]
    /\ chain.ret.result[1] # chain.ret.result[2]

\* address A is mapped and holds the pointer A
SelfPointer(A) == Mapped(mem, A, PtrSize) /\ Bytes(mem, A, PtrSize) = Encode(A, endian)

\* C3: if address A is readable and contains the value A, get(A, L) returns
\* exactly [A, A] for every L >= 2.
C3_SelfPointer ==
    (chain.called /\ chain.limit >= 2 /\ SelfPointer(chain.address)) =>
        chain.ret.result = <<chain.address, chain.address>>

C3_Witness ==
    /\ chain.called /\ chain.limit = LIMIT /\ SelfPointer(chain.address)
    /\ chain.ret.result = <<chain.address, chain.address>>

\* C4: a failed pointer read ends get normally: no exception leaves get, an
\* unreadable address can only be the last element of the chain, and an
\* unreadable start address A gives [A] for every L >= 1.
C4_FaultEndsChain ==
    (chain.called /\ chain.limit >= 1) =>
        /\ chain.ret.raised = NoError
        /\ \A k \in 1..Len(chain.ret.result) :
              ~Mapped(mem, chain.ret.result[k], PtrSize) => k = Len(chain.ret.result)
        /\ ~Mapped(mem, chain.address, PtrSize) => chain.ret.result = <<chain.address>>

\* a chain of two readable pointers that ends at an unreadable third address
C4_Witness ==
    /\ chain.called /\ chain.limit = LIMIT /\ Len(chain.ret.result) = 3
    /\ ~Mapped(mem, chain.ret.result[3], PtrSize)
    /\ chain.ret.raised = NoError

\* C5: format renders '...' exactly when the chain has LIMIT entries, and
\* whenever get stopped at a failed read or at a cycle the terminal value is
\* classified, not replaced by '...'.
C5_EllipsisMeansTruncated ==
    text.called =>
        /\ (text.ret.enhanced = Ellipsis) <=> (Len(text.ret.links) = LIMIT)
        /\ text.ret.exit \in {"fault", "cycle"} => text.ret.enhanced # Ellipsis

\* C6: over fully mapped memory dX(S, A, N), N >= 1, returns ceil(N*S/16)
\* rows, every row but the last holds 16/S values, and the values of the rows
\* in order are the N integers at A, A+S, ..., A+(N-1)*S.
C6_RowsOfSixteenBytes ==
    (/\ dump.called /\ dump.count >= 1
     /\ Mapped(mem, dump.address, dump.count * dump.size)) =>
        LET lines == dump.ret.lines
            shown == AllValues(lines)
        IN  /\ Len(lines) = Ceil16(dump.count * dump.size)
            /\ \A i \in 1..(Len(lines) - 1) :
                  16 = dump.size * Len(RowValues(lines, i))
            /\ Len(RowValues(lines, Len(lines))) >= 1
            /\ Len(shown) = dump.count
            /\ \A k \in 1..Len(shown) :
                  ShowsWordAt(shown[k], dump.address + (k - 1) * dump.size, dump.size)

\* dd of 16 dwords over mapped memory: 4 rows of 4 values
C6_Witness ==
    /\ dump.called /\ dump.size = 4 /\ dump.count = 16 /\ dump.address = 1
    /\ Mapped(mem, dump.address, 64)
    /\ Len(dump.ret.lines) = 4
    /\ \A i \in 1..4 : Len(RowValues(dump.ret.lines, i)) = 4

\* index k is the first whose read fails in dX(size, address, count)
FirstFailure(size, address, count, k) ==
    /\ k \in 0..(count - 1)
    /\ ~Mapped(mem, address + k * size, size)
    /\ \A i \in 0..(k - 1) : Mapped(mem, address + i * size, size)

\* C7: if the element at index k < count is the first whose read fails, dX
\* returns normally, the values it returns are the k values at indices
\* 0..k-1 in order, and no read is attempted after index k.
C7_DumpTruncates ==
    dump.called =>
        \A k \in 0..(dump.count - 1) :
            FirstFailure(dump.size, dump.address, dump.count, k) =>
                LET shown == AllValues(dump.ret.lines)
                IN  /\ dump.ret.raised = NoError
                    /\ Len(shown) = k
                    /\ \A i \in 1..k :
                          ShowsWordAt(shown[i], dump.address + (i - 1) * dump.size,
                                      dump.size)
                    /\ dump.ret.reads =
                          [i \in 1..(k + 1) |-> dump.address + (i - 1) * dump.size]

\* db of 100 bytes with the first 50 mapped, the byte after them not, and
\* mapped memory again behind it: 50 values
C7_Witness ==
    /\ dump.called /\ dump.size = 1 /\ dump.count = 100 /\ dump.address = 0
    /\ FirstFailure(1, 0, 100, 50)
    /\ Mapped(mem, 51, 1)
    /\ Len(AllValues(dump.ret.lines)) = 50

\* the bytes hex item `item` stands for at element size `size`
ItemBytes(item, size) ==
    [j \in 1..size |->
        LET padded == [k \in 1..(2 * size) |->
                          IF k <= 2 * size - Len(item) THEN "0"
                          ELSE item[k - (2 * size - Len(item))]]
        IN  HexNat(<<padded[2 * j - 1], padded[2 * j]>>)]

\* C8: eX with hex items writes them in index order at A + i*S and stops at
\* the first failing write j: items 0..j-1 are in memory, no write is
\* attempted after j, and gdb.MemoryError naming A + j*S reaches the caller.
C8_PatchStopsAtFailure ==
    (patch.called /\ patch.hex) =>
        /\ \* a write that fails is the last one attempted and is reported
           \A j \in 1..Len(patch.writes) :
              /\ patch.writes[j] = patch.address + (j - 1) * patch.size
              /\ ~Mapped(mem, patch.writes[j], patch.size) =>
                    /\ j = Len(patch.writes)
                    /\ patch.raised = MemoryError(patch.address + (j - 1) * patch.size)
                    /\ \A i \in 1..(j - 1) :
                          Len(patch.data[i]) <= 2 * patch.size =>
                              Bytes(mem, patch.writes[i], patch.size)
                                  = ItemBytes(patch.data[i], patch.size)
        /\ \* an unmapped target among well-formed items is reached and fails
           (\A i \in 1..Len(patch.data) : Len(patch.data[i]) <= 2 * patch.size) =>
              \A j \in 1..Len(patch.data) :
                 (/\ ~Mapped(mem, patch.address + (j - 1) * patch.size, patch.size)
                  /\ \A i \in 1..(j - 1) :
                        Mapped(mem, patch.address + (i - 1) * patch.size, patch.size)) =>
                     /\ Len(patch.writes) = j
                     /\ patch.raised.type = "gdb.MemoryError"

\* ed of two items whose second target is unmapped: the first is written,
\* the second is reported
C8_Witness ==
    /\ patch.called /\ patch.hex /\ patch.size = 4 /\ Len(patch.data) = 2
    /\ patch.raised = MemoryError(patch.address + 4)
    /\ Bytes(mem, patch.address, 4) = ItemBytes(patch.data[1], 4)
    /\ Bytes(mem, patch.address, 4) # [j \in 1..4 |-> Pattern(patch.address + j - 1)]

\* C9: after eX(S, A, items) with hex items of at most 2*S digits succeeds,
\* dX(S, A, len(items)) returns each item's numeric value, in order.
C9_PatchDumpRoundTrip ==
    (/\ patch.called /\ patch.hex /\ patch.raised = NoError
     /\ \A i \in 1..Len(patch.data) : Len(patch.data[i]) <= 2 * patch.size
     /\ dump.called /\ dump.size = patch.size /\ dump.address = patch.address
     /\ dump.count = Len(patch.data)) =>
        LET shown == AllValues(dump.ret.lines)
        IN  /\ Len(shown) = Len(patch.data)
            /\ \A i \in 1..Len(shown) : HexDigits(shown[i]) = HexDigits(patch.data[i])

\* C10: the address label of row i (0-based) of dX(S, A, N) is A + 16*i.
C10_RowLabels ==
    dump.called =>
        \A i \in 1..Len(dump.ret.lines) :
            HexNat(Label(dump.ret.lines, i)) = dump.address + 16 * (i - 1)

====
